---------------------------- MODULE Spec2Model ----------------------------
(***************************************************************************)
(* A model of utu/meta/simple_agent_generator.py: the SimpleAgentGenerator *)
(* pipeline (build, step1..step4, format_config) in its two entry points   *)
(* run() and run_streamed(), as asyncio coroutines.                        *)
(*                                                                         *)
(* One action is the code a coroutine executes between two suspension      *)
(* points (awaits); pc[t] names the await a pipeline is suspended at.      *)
(* Texts are TLA+ strings: names, instructions, the agents' outputs and    *)
(* the rendered configuration document are computed character by           *)
(* character as the Python code computes them.                             *)
(***************************************************************************)
EXTENDS Integers, Sequences, FiniteSets, TLC

(***************************************************************************)
(* Bounds of the model.                                                    *)
(***************************************************************************)
\* The most progress events one agent run streams.
MaxEvents == 2
\* The most tool names the tool-selection agent returns in its list.
MaxSel == 3
\* How far beyond the length limit a generated name may reach.
NameOver == 2

(***************************************************************************)
(* Program constants.                                                      *)
(***************************************************************************)
\* step4: len(name) > 50, name[:50]
NameMaxLen == 50

\* Python's None, and a value that is set: an optional value is a sequence
\* of length 0 or 1.
None == <<>>
Some(x) == <<x>>
IsSet(o) == o # <<>>
Get(o) == o[1]

\* The elements of a non-empty sequence s joined by sep ("sep".join(s)).
RECURSIVE JoinFrom(_, _, _)
JoinFrom(s, sep, i) ==
    IF i = Len(s) THEN s[i] ELSE s[i] \o sep \o JoinFrom(s, sep, i + 1)

\* str.join
Join(s, sep) == IF Len(s) = 0 THEN "" ELSE JoinFrom(s, sep, 1)

\* str.split("\n"): the pieces of text between its line breaks.
RECURSIVE SplitFrom(_, _)
SplitFrom(text, from) ==
    LET nl == {i \in from..Len(text) : SubSeq(text, i, i) = "\n"}
    IN  IF nl = {}
        THEN <<SubSeq(text, from, Len(text))>>
        ELSE LET i == CHOOSE i \in nl : \A j \in nl : i <= j
             IN  <<SubSeq(text, from, i - 1)>> \o SplitFrom(text, i + 1)

Split(text) == SplitFrom(text, 1)

\* " " * indent
RECURSIVE Spaces(_)
Spaces(n) == IF n = 0 THEN "" ELSE " " \o Spaces(n - 1)

\* add_indented_lines on a list of lines.
add_indented_lines(lines, indent) ==
    Join([k \in 1..Len(lines) |-> Spaces(indent) \o lines[k]], "\n")

\* add_indented_lines on a str: the isinstance branch splits it first.
add_indented_text(text, indent) == add_indented_lines(Split(text), indent)

\* json.dumps of a list of strings (no character of the model's tool names
\* needs escaping).
json_dumps_list(names) ==
    "[" \o Join([k \in 1..Len(names) |-> "\"" \o names[k] \o "\""], ", ") \o "]"

\* json.dumps({'activated_tools': tool_names})
json_dumps_activated(tool_names) ==
    "{\"activated_tools\": " \o json_dumps_list(tool_names) \o "}"

\* CONFIG_TEMPLATE.format(...)
CONFIG_TEMPLATE(agent_name, instructions, toolkits_includes, toolkits_configs) ==
    "\n# @package _global_\ndefaults:\n  - /model/base@model\n"
    \o toolkits_includes
    \o "\n  - _self_\n\ntoolkits:\n"
    \o toolkits_configs
    \o "\n\nagent:\n  name: " \o agent_name
    \o "\n  instructions: |\n" \o instructions \o "\n"

\* The include line format_config appends for a toolkit.
IncludeLine(toolkit_name) ==
    "- /tools/" \o toolkit_name \o "@toolkits." \o toolkit_name

\* The configuration line format_config appends for a toolkit.
ConfigLine(toolkit_name, tool_names) ==
    toolkit_name \o ": " \o json_dumps_activated(tool_names)

\* RenderConfig with the include line of the last toolkit left out.
RenderConfig_skips_last(selected_tools, name, instructions) ==
    LET toolkits_includes ==
            [k \in 1..(Len(selected_tools) - 1) |->
                IncludeLine(selected_tools[k].toolkit_name)]
        toolkits_configs ==
            [k \in 1..Len(selected_tools) |->
                ConfigLine(selected_tools[k].toolkit_name,
                           selected_tools[k].tool_names)]
    IN  CONFIG_TEMPLATE(name,
                        add_indented_text(instructions, 4),
                        add_indented_lines(toolkits_includes, 2),
                        add_indented_lines(toolkits_configs, 2))

\* The text format_config renders from a record's selected_tools (a
\* sequence of [toolkit_name, tool_names] in the dict's insertion order),
\* name and instructions.
RenderConfig(selected_tools, name, instructions) ==
    LET toolkits_includes ==
            [k \in 1..Len(selected_tools) |->
                IncludeLine(selected_tools[k].toolkit_name)]
        toolkits_configs ==
            [k \in 1..Len(selected_tools) |->
                ConfigLine(selected_tools[k].toolkit_name,
                           selected_tools[k].tool_names)]
    IN  CONFIG_TEMPLATE(name,
                        add_indented_text(instructions, 4),
                        add_indented_lines(toolkits_includes, 2),
                        add_indented_lines(toolkits_configs, 2))

\* self.output_dir / f"{task_recorder.name}.yaml"
OutputDir == "configs/agents/generated"
OutputPath(name) == OutputDir \o "/" \o name \o ".yaml"

\* s[i] of a str (1-based); "" beyond its end.
CharAt(s, i) == IF i >= 1 /\ i <= Len(s) THEN SubSeq(s, i, i) ELSE ""

\* s[:n]
Prefix(s, n) == SubSeq(s, 1, IF Len(s) < n THEN Len(s) ELSE n)

\* " " in name
ContainsSpace(s) == \E i \in 1..Len(s) : CharAt(s, i) = " "

\* name.replace(" ", "_")
ReplaceSpaces(s) ==
    Join([i \in 1..Len(s) |-> IF CharAt(s, i) = " " THEN "_" ELSE CharAt(s, i)], "")

\* NameViolates with the length limit off by one.
NameViolates_off_by_one(name) == Len(name) >= NameMaxLen \/ ContainsSpace(name)

\* step4's condition for sanitizing (and warning about) a generated name.
NameViolates(name) == Len(name) > NameMaxLen \/ ContainsSpace(name)

\* The name step4 stores for a generated name.
SanitizeName(name) ==
    IF NameViolates(name) THEN ReplaceSpaces(Prefix(name, NameMaxLen)) ELSE name

(***************************************************************************)
(* json.loads on the texts the tool-selection agent returns in this model: *)
(* a JSON array of strings, a JSON string, or text that is no JSON.  The   *)
(* strings hold no escape sequence.  The result is [ok, kind, items]:      *)
(* items are the values a for loop over the parsed value yields (the       *)
(* elements of a list, the characters of a str).                           *)
(***************************************************************************)
IsWs(c) == c \in {" ", "\n", "\t", "\r"}

\* The first index >= i of s that holds no whitespace (Len(s) + 1 if none).
RECURSIVE SkipWs(_, _)
SkipWs(s, i) == IF i <= Len(s) /\ IsWs(CharAt(s, i)) THEN SkipWs(s, i + 1) ELSE i

\* The index of the quote closing a string that opens before i (0: none).
RECURSIVE ClosingQuote(_, _)
ClosingQuote(s, i) ==
    IF i > Len(s) THEN 0
    ELSE IF CharAt(s, i) = "\"" THEN i
    ELSE ClosingQuote(s, i + 1)

JsonError == [ok |-> FALSE, kind |-> "error", items |-> <<>>, next |-> 0]

\* A JSON string starting at s[i] = '"'.
ParseString(s, i) ==
    LET j == ClosingQuote(s, i + 1)
    IN  IF CharAt(s, i) # "\"" \/ j = 0 THEN JsonError
        ELSE [ok |-> TRUE, kind |-> "str",
              items |-> <<SubSeq(s, i + 1, j - 1)>>, next |-> j + 1]

\* The elements of a JSON array after its '[' or after a ',': s[i..] is
\* whitespace, then an element, then ',' (more) or ']' (the end).
RECURSIVE ParseElements(_, _, _)
ParseElements(s, i, acc) ==
    LET e == ParseString(s, SkipWs(s, i))
        k == SkipWs(s, e.next)
    IN  IF ~e.ok THEN JsonError
        ELSE IF CharAt(s, k) = "," THEN ParseElements(s, k + 1, acc \o e.items)
        ELSE IF CharAt(s, k) = "]"
             THEN [ok |-> TRUE, kind |-> "list", items |-> acc \o e.items, next |-> k + 1]
        ELSE JsonError

\* A JSON array starting at s[i] = '['.
ParseArray(s, i) ==
    LET k == SkipWs(s, i + 1)
    IN  IF CharAt(s, k) = "]"
        THEN [ok |-> TRUE, kind |-> "list", items |-> <<>>, next |-> k + 1]
        ELSE ParseElements(s, i + 1, <<>>)

\* json.loads(s)
JsonLoads(s) ==
    LET i == SkipWs(s, 1)
        v == IF CharAt(s, i) = "[" THEN ParseArray(s, i)
             ELSE IF CharAt(s, i) = "\"" THEN ParseString(s, i)
             ELSE JsonError
    IN  IF ~v.ok \/ SkipWs(s, v.next) <= Len(s) THEN JsonError
        ELSE IF v.kind = "str"
             THEN [v EXCEPT !.items = [c \in 1..Len(v.items[1]) |-> CharAt(v.items[1], c)]]
        ELSE v

(***************************************************************************)
(* The toolkits step2 offers.  get_toolkits_map and the toolkits are not   *)
(* part of this file: the catalogue here follows the specification's       *)
(* example (web_search is a tool of search, pdf_reader one of document).   *)
(* read_file is offered by two toolkits, which shows which owner the       *)
(* reverse index keeps.                                                    *)
(***************************************************************************)
\* step2: available_toolkits
available_toolkits == <<"search", "document", "image", "audio", "bash", "tabular">>

Tool(name, description) == [name |-> name, description |-> description]

\* toolkit.get_tools_in_agents() of the toolkit get_toolkits_map gives for a name.
get_tools_in_agents(toolkit_name) ==
    CASE toolkit_name = "search" ->
           <<Tool("web_search", "search the web"), Tool("web_qa", "ask a web page")>>
      [] toolkit_name = "document" ->
           <<Tool("pdf_reader", "read a PDF"), Tool("read_file", "read a document")>>
      [] toolkit_name = "image" -> <<Tool("image_qa", "ask about an image")>>
      [] toolkit_name = "audio" -> <<Tool("audio_qa", "ask about a recording")>>
      [] toolkit_name = "bash" ->
           <<Tool("run_bash", "run a command"), Tool("read_file", "print a file")>>
      [] toolkit_name = "tabular" -> <<>>

\* The empty dict.
EmptyDict == [n \in {} |-> ""]

\* tools_descs.extend(f"- {tool.name}: {tool.description}" for tool in tools)
ExtendDescs(tools_descs, tools) ==
    tools_descs \o [k \in 1..Len(tools) |->
                       "- " \o tools[k].name \o ": " \o tools[k].description]

\* tool_to_toolkit_name.update({tool.name: toolkit_name for tool in tools})
UpdateIndex(tool_to_toolkit_name, toolkit_name, tools) ==
    LET new == {tools[k].name : k \in 1..Len(tools)}
    IN  [n \in (DOMAIN tool_to_toolkit_name) \cup new |->
            IF n \in new THEN toolkit_name ELSE tool_to_toolkit_name[n]]

\* TOOL_SELECTION_TEMPLATE.format(available_tools=..., requirement=...)
TOOL_SELECTION_TEMPLATE(available_tools, requirement) ==
    "<available_tools>\n" \o available_tools \o "\n</available_tools>\n<requirement>\n"
    \o requirement \o "\n</requirement>"

\* The position of toolkit_name among the keys of an ordered dict (0: no key).
KeyIndex(dict, toolkit_name) ==
    IF \E k \in 1..Len(dict) : dict[k].toolkit_name = toolkit_name
    THEN CHOOSE k \in 1..Len(dict) : dict[k].toolkit_name = toolkit_name
    ELSE 0

\* AppendTool with the tool inserted at the front of its list.
AppendTool_at_front(dict, toolkit_name, tool_name) ==
    LET k == KeyIndex(dict, toolkit_name)
    IN  IF k = 0
        THEN Append(dict, [toolkit_name |-> toolkit_name, tool_names |-> <<tool_name>>])
        ELSE [dict EXCEPT ![k].tool_names = <<tool_name>> \o @]

\* selected_tools[toolkit_name].append(tool_name) on a defaultdict(list): a
\* dict keeps its keys in insertion order.
AppendTool(dict, toolkit_name, tool_name) ==
    LET k == KeyIndex(dict, toolkit_name)
    IN  IF k = 0
        THEN Append(dict, [toolkit_name |-> toolkit_name, tool_names |-> <<tool_name>>])
        ELSE [dict EXCEPT ![k].tool_names = Append(@, tool_name)]

\* step2's grouping loop from its i-th name on: [ok, dict]; ok is FALSE when
\* tool_to_toolkit_name[tool_name] raises KeyError.
RECURSIVE GroupFrom(_, _, _, _)
GroupFrom(selected_tool_names, tool_to_toolkit_name, i, dict) ==
    IF i > Len(selected_tool_names) THEN [ok |-> TRUE, dict |-> dict]
    ELSE IF selected_tool_names[i] \notin DOMAIN tool_to_toolkit_name
         THEN [ok |-> FALSE, dict |-> dict]
    ELSE GroupFrom(selected_tool_names, tool_to_toolkit_name, i + 1,
                   AppendTool(dict, tool_to_toolkit_name[selected_tool_names[i]],
                              selected_tool_names[i]))

\* step2: selected_tools = defaultdict(list); for tool_name in ...: ...
GroupTools(selected_tool_names, tool_to_toolkit_name) ==
    GroupFrom(selected_tool_names, tool_to_toolkit_name, 1, <<>>)

(***************************************************************************)
(* What the environment may answer.  A scenario widens one of the inputs   *)
(* and keeps the others narrow; env is chosen in Init and never changes.   *)
(*   events: one pipeline, agent runs that stream up to MaxEvents events   *)
(*   tools:  one pipeline, every tool-selection output of the repertoire   *)
(*   names:  one pipeline, every generated name of the repertoire          *)
(*   pair:   two pipelines on one generator                                *)
(* Spec explores the scenarios of one pipeline, SpecPair the pair.         *)
(***************************************************************************)
Scenarios == {"events", "tools", "names"}

Tasks(e) == IF e = "pair" THEN {1, 2} ELSE {1}

\* The most events the agent run of a step streams in a scenario.
EventsOf(e, step) ==
    IF e = "events" THEN MaxEvents
    ELSE IF e = "pair" /\ step = 1 THEN 1
    ELSE 0

\* What the user answers to step1's question.
UserInputs == {"I need an agent that can search the web and summarize PDFs"}

\* What the clarification agent returns.
Requirements(e) ==
    IF e = "pair" THEN {"search the web", "summarize PDFs"}
    ELSE {"search the web and summarize PDFs"}

\* The sequences over S of length at most n.
SeqsUpTo(S, n) == UNION {[1..k -> S] : k \in 0..n}

\* The tool names the tool-selection agent puts in its list: known ones,
\* and one that no toolkit offers.
SelectionNames == {"web_search", "web_qa", "pdf_reader", "read_file", "no_such_tool"}

\* Outputs of the tool-selection agent that are no JSON array of tool names.
OddSelections ==
    { "I would pick web_search and pdf_reader.",
      "json\n[\"web_search\"]",
      "[\"web_search\", ]",
      "[\"web_search\" \"pdf_reader\"]",
      "[\"web_search\"",
      "[web_search]",
      "\"web_search\"",
      " [ \"pdf_reader\" ,\"web_search\"]\n" }

\* What the tool-selection agent returns.
Selections(e) ==
    IF e = "tools"
    THEN {json_dumps_list(l) : l \in SeqsUpTo(SelectionNames, MaxSel)} \cup OddSelections
    ELSE {"[\"web_search\", \"pdf_reader\"]", "[\"no_such_tool\"]", "no tools needed"}

\* What the instructions-generation agent returns.
Instructions(e) ==
    IF e = "tools"
    THEN {"", "You are a helpful agent.",
          "You search the web.\n  - /tools/search@toolkits.search\nname: x\n"}
    ELSE {"You search the web.\nThen you summarize PDFs."}

\* A name of n characters with a space at the positions of S.
Fill(n, S) == Join([i \in 1..n |-> IF i \in S THEN " " ELSE "a"], "")

\* What the name-generation agent returns.
GeneratedNames(e) ==
    IF e = "names"
    THEN {Fill(n, S) :
            n \in {0, 1, NameMaxLen - 1} \cup (NameMaxLen..(NameMaxLen + NameOver)),
            S \in SUBSET {1, NameMaxLen, NameMaxLen + 1}}
         \cup {"shortname",
               "a very long name with spaces that exceeds fifty characters total"}
    ELSE IF e = "tools" THEN {"web_pdf_agent", "web pdf agent"}
    ELSE {"web_pdf_agent"}

\* The final outputs the agent of a step may return.
FinalOutputs(e, step) ==
    CASE step = 1 -> Requirements(e)
      [] step = 2 -> Selections(e)
      [] step = 3 -> Instructions(e)
      [] step = 4 -> GeneratedNames(e)

(***************************************************************************)
(* The state.                                                              *)
(***************************************************************************)
VARIABLES
    env,                  \* the scenario (see above); never changes
    mode,                 \* self.mode
    _initialized,         \* self._initialized
    interaction_toolkit,  \* self.interaction_toolkit: an object (0: not set)
    agent,                \* self.agent_1 .. self.agent_4: objects (0: not set)
    constructed,          \* how many objects build() has constructed
    pc,                   \* per pipeline: the await it is suspended at
    kind,                 \* per pipeline: "run", "streamed", "build" (a call
                          \*   of build() alone) or "" (not started)
    task_recorder,        \* per pipeline: its GeneratorTaskRecorder, if created
    frame,                \* per pipeline: the local variables of its coroutines
    result,               \* per pipeline: the RunResultStreaming of its step
    entered,              \* per pipeline: the agent its async with holds (0: none)
    exception,            \* per pipeline: the exception being propagated ("": none)
    printed,              \* per pipeline: the events it printed to the console
    warnings,             \* per pipeline: the warnings it logged
    files,                \* the files written: path -> text
    log,                  \* history, per pipeline: the starts and ends of its steps
    emitted,              \* history, per pipeline: the events its agent runs streamed
    outputs               \* history, per pipeline: the final output each step read

generator == <<mode, _initialized, interaction_toolkit, agent, constructed>>
history == <<log, emitted, outputs>>
vars == <<env, mode, _initialized, interaction_toolkit, agent, constructed, pc, kind,
          task_recorder, frame, result, entered, exception, printed, warnings,
          files, log, emitted, outputs>>

\* GeneratorTaskRecorder(): its class is defined in utu/meta/common.py.
NewRecorder ==
    [requirements |-> None, selected_tools |-> None, instructions |-> None,
     name |-> None, _event_queue |-> <<>>, _is_complete |-> FALSE,
     _run_impl_task |-> None]

\* The locals of a pipeline's coroutines before they are assigned.
NewFrame ==
    [user_input |-> "", loaded |-> 0, tools_descs |-> <<>>,
     tool_to_toolkit_name |-> EmptyDict, selected_tool_names |-> <<>>, ofn |-> None]

\* No agent run.
NoResult ==
    [step |-> 0, input |-> "", streamed |-> 0, pending |-> <<>>,
     status |-> "none", final_output |-> None]

\* The record of pipeline t, once created.
Recorder(t) == task_recorder[t][1]

\* The state after SimpleAgentGenerator() and before any call on it.
Constructed ==
    /\ mode = "local"
    /\ _initialized = FALSE
    /\ interaction_toolkit = 0
    /\ agent = [k \in 1..4 |-> 0]
    /\ constructed = 0
    /\ pc = [t \in Tasks(env) |-> "idle"]
    /\ kind = [t \in Tasks(env) |-> ""]
    /\ task_recorder = [t \in Tasks(env) |-> None]
    /\ frame = [t \in Tasks(env) |-> NewFrame]
    /\ result = [t \in Tasks(env) |-> NoResult]
    /\ entered = [t \in Tasks(env) |-> 0]
    /\ exception = [t \in Tasks(env) |-> ""]
    /\ printed = [t \in Tasks(env) |-> <<>>]
    /\ warnings = [t \in Tasks(env) |-> <<>>]
    /\ files = EmptyDict
    /\ log = [t \in Tasks(env) |-> <<>>]
    /\ emitted = [t \in Tasks(env) |-> <<>>]
    /\ outputs = [t \in Tasks(env) |-> [k \in 1..4 |-> None]]

(***************************************************************************)
(* The caller.                                                             *)
(***************************************************************************)
\* generator.mode = m, before the generator is used ("local | webui").
SetMode(m) ==
    /\ \A t \in DOMAIN pc : pc[t] = "idle"
    /\ mode # m
    /\ mode' = m
    /\ UNCHANGED <<env, _initialized, interaction_toolkit, agent, constructed, pc, kind,
                   task_recorder, frame, result, entered, exception, printed,
                   warnings, files, log, emitted, outputs>>

(***************************************************************************)
(* build()                                                                 *)
(***************************************************************************)
\* What pipeline t, of kind k, does once its build() has returned, up to
\* its next await: run() creates its record, and both run() and
\* _start_streaming() call step1, which awaits ask_user.  lg is the log of
\* t up to the return of build().
AfterBuild(t, k, lg) ==
    IF k = "build"
    THEN /\ pc' = [pc EXCEPT ![t] = "done"]
         /\ log' = [log EXCEPT ![t] = lg]
         /\ UNCHANGED task_recorder
    ELSE /\ pc' = [pc EXCEPT ![t] = "s1_ask"]
         /\ log' = [log EXCEPT ![t] = lg \o <<"start step1">>]
         /\ task_recorder' =
                IF k = "run" THEN [task_recorder EXCEPT ![t] = Some(NewRecorder)]
                ELSE task_recorder

\* BuildEnter without the test of self._initialized: every call constructs.
BuildEnter_unguarded(t, k) ==
    /\ interaction_toolkit' = constructed + 1
    /\ constructed' = constructed + 1
    /\ pc' = [pc EXCEPT ![t] = "build_tools"]
    /\ log' = [log EXCEPT ![t] = log[t] \o <<"start build">>]
    /\ UNCHANGED task_recorder

\* build() from its first line to its first await (or its return).
BuildEnter(t, k) ==
    IF _initialized
    THEN /\ AfterBuild(t, k, log[t] \o <<"start build", "end build">>)
         /\ UNCHANGED <<interaction_toolkit, constructed>>
    ELSE /\ interaction_toolkit' = constructed + 1
         /\ constructed' = constructed + 1
         /\ pc' = [pc EXCEPT ![t] = "build_tools"]
         /\ log' = [log EXCEPT ![t] = log[t] \o <<"start build">>]
         /\ UNCHANGED task_recorder

\* build() after interaction_toolkit.get_tools_in_agents() has returned.
BuildResume(t) ==
    /\ pc[t] = "build_tools"
    /\ agent' = [k \in 1..4 |-> constructed + k]
    /\ constructed' = constructed + 4
    /\ _initialized' = TRUE
    /\ AfterBuild(t, kind[t], log[t] \o <<"end build">>)
    /\ UNCHANGED <<env, mode, interaction_toolkit, kind, frame, result, entered,
                   exception, printed, warnings, files, emitted, outputs>>

\* await generator.build(), called on its own.
Build(t) ==
    /\ pc[t] = "idle"
    /\ kind' = [kind EXCEPT ![t] = "build"]
    /\ BuildEnter(t, "build")
    /\ UNCHANGED <<env, mode, _initialized, agent, frame, result, entered, exception,
                   printed, warnings, files, emitted, outputs>>

(***************************************************************************)
(* run() and run_streamed()                                                *)
(***************************************************************************)
\* await generator.run(): up to the first await of build().
Run(t) ==
    /\ pc[t] = "idle"
    /\ kind' = [kind EXCEPT ![t] = "run"]
    /\ BuildEnter(t, "run")
    /\ UNCHANGED <<env, mode, _initialized, agent, frame, result, entered, exception,
                   printed, warnings, files, emitted, outputs>>

\* RunStreamed with the task created but not stored in the record.
RunStreamed_task_not_stored(t) ==
    /\ pc[t] = "idle"
    /\ kind' = [kind EXCEPT ![t] = "streamed"]
    /\ task_recorder' = [task_recorder EXCEPT ![t] = Some(NewRecorder)]
    /\ pc' = [pc EXCEPT ![t] = "scheduled"]
    /\ UNCHANGED <<env, generator, frame, result, entered, exception, printed, warnings,
                   files, log, emitted, outputs>>

\* generator.run_streamed(): the record is created and the pipeline is
\* scheduled as a task, which the record references; nothing of it has run.
RunStreamed(t) ==
    /\ pc[t] = "idle"
    /\ kind' = [kind EXCEPT ![t] = "streamed"]
    /\ task_recorder' =
           [task_recorder EXCEPT ![t] = Some([NewRecorder EXCEPT !._run_impl_task = Some(t)])]
    /\ pc' = [pc EXCEPT ![t] = "scheduled"]
    /\ UNCHANGED <<env, generator, frame, result, entered, exception, printed, warnings,
                   files, log, emitted, outputs>>

\* The event loop starts the task of _start_streaming: up to the first
\* await of build().
StartStreaming(t) ==
    /\ pc[t] = "scheduled"
    /\ BuildEnter(t, "streamed")
    /\ UNCHANGED <<env, mode, _initialized, agent, kind, frame, result, entered,
                   exception, printed, warnings, files, emitted, outputs>>

(***************************************************************************)
(* The agent runs.  SimpleAgent and RunResultStreaming are not part of     *)
(* this file: a run streams events, then either completes with a final     *)
(* output or fails; stream_events() yields the events in order, ends when  *)
(* the run has completed and raises when it has failed.                    *)
(***************************************************************************)
StepOf(p) ==
    CASE p \in {"s1_ask", "s1_enter", "s1_stream", "s1_exit"} -> 1
      [] p \in {"s2_tools", "s2_enter", "s2_stream", "s2_exit"} -> 2
      [] p \in {"s3_enter", "s3_stream", "s3_exit"} -> 3
      [] p \in {"s4_enter", "s4_stream", "s4_exit"} -> 4
      [] OTHER -> 0

EnterPcs == {"s1_enter", "s2_enter", "s3_enter", "s4_enter"}
StreamPcs == {"s1_stream", "s2_stream", "s3_stream", "s4_stream"}
ExitPcs == {"s1_exit", "s2_exit", "s3_exit", "s4_exit"}

StreamPc(step) == <<"s1_stream", "s2_stream", "s3_stream", "s4_stream">>[step]
ExitPc(step) == <<"s1_exit", "s2_exit", "s3_exit", "s4_exit">>[step]

\* The i-th progress event of the agent run of a step of pipeline t.
Event(t, step, i) == [task |-> t, step |-> step, seq |-> i]

\* The agent run of pipeline t streams its next event.
AgentStreams(t) ==
    /\ pc[t] \in StreamPcs
    /\ result[t].status = "running"
    /\ result[t].streamed < EventsOf(env, result[t].step)
    /\ LET e == Event(t, result[t].step, result[t].streamed + 1)
       IN  /\ result' = [result EXCEPT ![t].streamed = @ + 1,
                                       ![t].pending = Append(@, e)]
           /\ emitted' = [emitted EXCEPT ![t] = Append(@, e)]
    /\ UNCHANGED <<env, generator, pc, kind, task_recorder, frame, entered, exception,
                   printed, warnings, files, log, outputs>>

\* The agent run of pipeline t completes with a final output.
AgentCompletes(t) ==
    /\ pc[t] \in StreamPcs
    /\ result[t].status = "running"
    /\ \E o \in FinalOutputs(env, result[t].step) :
           result' = [result EXCEPT ![t].status = "complete",
                                    ![t].final_output = Some(o)]
    /\ UNCHANGED <<env, generator, pc, kind, task_recorder, frame, entered, exception,
                   printed, warnings, files, log, emitted, outputs>>

\* The agent run of pipeline t fails (a model error, a tool error).
AgentFails(t) ==
    /\ pc[t] \in StreamPcs
    /\ result[t].status = "running"
    /\ result' = [result EXCEPT ![t].status = "failed"]
    /\ UNCHANGED <<env, generator, pc, kind, task_recorder, frame, entered, exception,
                   printed, warnings, files, log, emitted, outputs>>

\* The agent run of pipeline t hangs: it streams no further event and never
\* ends, and no timeout bounds the await of its stream.
AgentHangs(t) ==
    /\ pc[t] \in StreamPcs
    /\ result[t].status = "running"
    /\ result' = [result EXCEPT ![t].status = "hung"]
    /\ UNCHANGED <<env, generator, pc, kind, task_recorder, frame, entered, exception,
                   printed, warnings, files, log, emitted, outputs>>

(***************************************************************************)
(* The steps.                                                              *)
(***************************************************************************)
\* The input step `step` of pipeline t gives its agent.
AgentInput(t, step) ==
    CASE step = 1 -> frame[t].user_input
      [] step = 2 -> TOOL_SELECTION_TEMPLATE(Join(frame[t].tools_descs, "\n"),
                                             Get(Recorder(t).requirements))
      [] step = 3 -> Get(Recorder(t).requirements)
      [] step = 4 -> Get(Recorder(t).requirements)

\* step1: ask_user has returned; async with self.agent_1 is entered.
Step1Asked(t) ==
    /\ pc[t] = "s1_ask"
    /\ \E u \in UserInputs : frame' = [frame EXCEPT ![t].user_input = u]
    /\ entered' = [entered EXCEPT ![t] = agent[1]]
    /\ pc' = [pc EXCEPT ![t] = "s1_enter"]
    /\ UNCHANGED <<env, generator, kind, task_recorder, result, exception, printed,
                   warnings, files, log, emitted, outputs>>

\* __aenter__ has returned: agent.run_streamed(input), and _process_streamed
\* awaits the first event.
AgentEntered(t) ==
    /\ pc[t] \in EnterPcs
    /\ result' = [result EXCEPT ![t] =
                     [NoResult EXCEPT !.step = StepOf(pc[t]),
                                      !.input = AgentInput(t, StepOf(pc[t])),
                                      !.status = "running"]]
    /\ pc' = [pc EXCEPT ![t] = StreamPc(StepOf(pc[t]))]
    /\ UNCHANGED <<env, generator, kind, task_recorder, frame, entered, exception,
                   printed, warnings, files, log, emitted, outputs>>

\* AgentsUtils.print_stream_events, for one event: it is printed.
print_stream_events(t, e) == printed' = [printed EXCEPT ![t] = Append(@, e)]

\* put_nowait on a queue that hands out the newest event first.
put_nowait_at_front(t, e) ==
    task_recorder' = [task_recorder EXCEPT ![t][1]._event_queue = <<e>> \o @]

\* task_recorder._event_queue.put_nowait(event)
put_nowait(t, e) ==
    task_recorder' = [task_recorder EXCEPT ![t][1]._event_queue = Append(@, e)]

\* _process_streamed: what is done with one event of the stream.
ProcessEvent(t, e) ==
    IF mode = "local"
    THEN print_stream_events(t, e) /\ UNCHANGED task_recorder
    ELSE put_nowait(t, e) /\ UNCHANGED printed

\* _process_streamed: the stream yields its next event.
StreamEvent(t) ==
    /\ pc[t] \in StreamPcs
    /\ result[t].pending # <<>>
    /\ ProcessEvent(t, Head(result[t].pending))
    /\ result' = [result EXCEPT ![t].pending = Tail(@)]
    /\ UNCHANGED <<env, generator, pc, kind, frame, entered, exception, warnings, files,
                   log, emitted, outputs>>

\* StreamOver as soon as the run is complete, events still to be relayed
\* or not.
StreamOver_ignores_pending(r) == r.status = "complete"

\* _process_streamed returns: the stream has ended.
StreamOver(r) == r.pending = <<>> /\ r.status = "complete"

\* StreamRaised with a timeout on the await of the stream: a hung run is
\* given up like a failed one.
StreamRaised_on_timeout(t) ==
    /\ pc[t] \in StreamPcs
    /\ result[t].pending = <<>>
    /\ result[t].status \in {"failed", "hung"}
    /\ exception' = [exception EXCEPT ![t] = "AgentError"]
    /\ pc' = [pc EXCEPT ![t] = ExitPc(StepOf(pc[t]))]
    /\ UNCHANGED <<env, generator, kind, task_recorder, frame, result, entered, printed,
                   warnings, files, log, emitted, outputs>>

\* The stream raises the failure of the run: the exception leaves the
\* async with block, whose __aexit__ is awaited.
StreamRaised(t) ==
    /\ pc[t] \in StreamPcs
    /\ result[t].pending = <<>>
    /\ result[t].status = "failed"
    /\ exception' = [exception EXCEPT ![t] = "AgentError"]
    /\ pc' = [pc EXCEPT ![t] = ExitPc(StepOf(pc[t]))]
    /\ UNCHANGED <<env, generator, kind, task_recorder, frame, result, entered, printed,
                   warnings, files, log, emitted, outputs>>

\* ExitRaised with the agent left entered: the exception leaves the
\* pipeline without the agent having been exited.
ExitRaised_agent_kept(t) ==
    /\ pc[t] \in ExitPcs
    /\ exception[t] # ""
    /\ result' = [result EXCEPT ![t] = NoResult]
    /\ pc' = [pc EXCEPT ![t] = "failed"]
    /\ UNCHANGED <<env, generator, kind, task_recorder, frame, entered, exception,
                   printed, warnings, files, log, emitted, outputs>>

\* ExitRaised with the exception swallowed: the pipeline goes on to
\* format_config as if step4 had returned.
ExitRaised_swallowed(t) ==
    /\ pc[t] \in ExitPcs
    /\ exception[t] # ""
    /\ exception' = [exception EXCEPT ![t] = ""]
    /\ pc' = [pc EXCEPT ![t] = "s4_exit"]
    /\ UNCHANGED <<env, generator, kind, task_recorder, frame, result, entered, printed,
                   warnings, files, log, emitted, outputs>>

\* __aexit__ has returned with an exception under way: it propagates out
\* of the step and out of run() or the task of _start_streaming.
ExitRaised(t) ==
    /\ pc[t] \in ExitPcs
    /\ exception[t] # ""
    /\ entered' = [entered EXCEPT ![t] = 0]
    /\ result' = [result EXCEPT ![t] = NoResult]
    /\ pc' = [pc EXCEPT ![t] = "failed"]
    /\ UNCHANGED <<env, generator, kind, task_recorder, frame, exception, printed,
                   warnings, files, log, emitted, outputs>>

\* step1: the stream has ended; requirements = result.final_output.
Step1Drained(t) ==
    /\ pc[t] = "s1_stream"
    /\ StreamOver(result[t])
    /\ task_recorder' = [task_recorder EXCEPT ![t][1].requirements = result[t].final_output]
    /\ outputs' = [outputs EXCEPT ![t][1] = result[t].final_output]
    /\ pc' = [pc EXCEPT ![t] = "s1_exit"]
    /\ UNCHANGED <<env, generator, kind, frame, result, entered, exception, printed,
                   warnings, files, log, emitted>>

\* Step1Exited with the calls of step2 and step3 exchanged: step3 is called
\* when step1 returns.
Step1Exited_step3_first(t) ==
    /\ pc[t] = "s1_exit"
    /\ exception[t] = ""
    /\ entered' = [entered EXCEPT ![t] = agent[3]]
    /\ result' = [result EXCEPT ![t] = NoResult]
    /\ log' = [log EXCEPT ![t] = @ \o <<"end step1", "start step3">>]
    /\ pc' = [pc EXCEPT ![t] = "s3_enter"]
    /\ UNCHANGED <<env, generator, kind, task_recorder, frame, exception, printed,
                   warnings, files, emitted, outputs>>

\* step1 returns; step2 up to its first await (the tools of the first toolkit).
Step1Exited(t) ==
    /\ pc[t] = "s1_exit"
    /\ exception[t] = ""
    /\ entered' = [entered EXCEPT ![t] = 0]
    /\ result' = [result EXCEPT ![t] = NoResult]
    /\ log' = [log EXCEPT ![t] = @ \o <<"end step1", "start step2">>]
    /\ pc' = [pc EXCEPT ![t] = "s2_tools"]
    /\ UNCHANGED <<env, generator, kind, task_recorder, frame, exception, printed,
                   warnings, files, emitted, outputs>>

\* step2: the tools of the next toolkit have arrived; after the last one
\* the query is built and async with self.agent_2 is entered.
Step2ToolsLoaded(t) ==
    /\ pc[t] = "s2_tools"
    /\ LET toolkit_name == available_toolkits[frame[t].loaded + 1]
           tools == get_tools_in_agents(toolkit_name)
           last == frame[t].loaded + 1 = Len(available_toolkits)
       IN  /\ frame' = [frame EXCEPT
                  ![t].loaded = @ + 1,
                  ![t].tools_descs = ExtendDescs(@, tools),
                  ![t].tool_to_toolkit_name = UpdateIndex(@, toolkit_name, tools)]
           /\ entered' = [entered EXCEPT ![t] = IF last THEN agent[2] ELSE @]
           /\ pc' = [pc EXCEPT ![t] = IF last THEN "s2_enter" ELSE @]
    /\ UNCHANGED <<env, generator, kind, task_recorder, result, exception, printed,
                   warnings, files, log, emitted, outputs>>

\* step2: the stream has ended; selected_tool_names = json.loads(final_output).
Step2Drained(t) ==
    /\ pc[t] = "s2_stream"
    /\ StreamOver(result[t])
    /\ LET parsed == JsonLoads(Get(result[t].final_output))
       IN  /\ frame' = [frame EXCEPT ![t].selected_tool_names = parsed.items]
           /\ exception' = [exception EXCEPT ![t] = IF parsed.ok THEN "" ELSE "JSONDecodeError"]
    /\ outputs' = [outputs EXCEPT ![t][2] = result[t].final_output]
    /\ pc' = [pc EXCEPT ![t] = "s2_exit"]
    /\ UNCHANGED <<env, generator, kind, task_recorder, result, entered, printed,
                   warnings, files, log, emitted>>

\* Step2Exited grouping into the record itself: when a name is unknown the
\* record keeps the grouping of the names before it.
Step2Exited_stores_partial(t) ==
    /\ pc[t] = "s2_exit"
    /\ exception[t] = ""
    /\ result' = [result EXCEPT ![t] = NoResult]
    /\ LET grouped == GroupTools(frame[t].selected_tool_names, frame[t].tool_to_toolkit_name)
       IN  /\ task_recorder' =
                  [task_recorder EXCEPT ![t][1].selected_tools = Some(grouped.dict)]
           /\ IF grouped.ok
              THEN /\ log' = [log EXCEPT ![t] = @ \o <<"end step2", "start step3">>]
                   /\ entered' = [entered EXCEPT ![t] = agent[3]]
                   /\ pc' = [pc EXCEPT ![t] = "s3_enter"]
                   /\ UNCHANGED exception
              ELSE /\ exception' = [exception EXCEPT ![t] = "KeyError"]
                   /\ entered' = [entered EXCEPT ![t] = 0]
                   /\ pc' = [pc EXCEPT ![t] = "failed"]
                   /\ UNCHANGED log
    /\ UNCHANGED <<env, generator, kind, frame, printed, warnings, files, emitted, outputs>>

\* step2 after its async with: the names are grouped and stored, step2
\* returns, and step3 enters async with self.agent_3.  An unknown name
\* raises KeyError out of the pipeline.
Step2Exited(t) ==
    /\ pc[t] = "s2_exit"
    /\ exception[t] = ""
    /\ result' = [result EXCEPT ![t] = NoResult]
    /\ LET grouped == GroupTools(frame[t].selected_tool_names, frame[t].tool_to_toolkit_name)
       IN  IF grouped.ok
           THEN /\ task_recorder' =
                       [task_recorder EXCEPT ![t][1].selected_tools = Some(grouped.dict)]
                /\ log' = [log EXCEPT ![t] = @ \o <<"end step2", "start step3">>]
                /\ entered' = [entered EXCEPT ![t] = agent[3]]
                /\ pc' = [pc EXCEPT ![t] = "s3_enter"]
                /\ UNCHANGED exception
           ELSE /\ exception' = [exception EXCEPT ![t] = "KeyError"]
                /\ entered' = [entered EXCEPT ![t] = 0]
                /\ pc' = [pc EXCEPT ![t] = "failed"]
                /\ UNCHANGED <<task_recorder, log>>
    /\ UNCHANGED <<env, generator, kind, frame, printed, warnings, files, emitted, outputs>>

\* Step3Drained storing the final output in requirements as well.
Step3Drained_writes_requirements(t) ==
    /\ pc[t] = "s3_stream"
    /\ StreamOver(result[t])
    /\ task_recorder' = [task_recorder EXCEPT ![t][1].instructions = result[t].final_output,
                                              ![t][1].requirements = result[t].final_output]
    /\ outputs' = [outputs EXCEPT ![t][3] = result[t].final_output]
    /\ pc' = [pc EXCEPT ![t] = "s3_exit"]
    /\ UNCHANGED <<env, generator, kind, frame, result, entered, exception, printed,
                   warnings, files, log, emitted>>

\* step3: the stream has ended; instructions = result.final_output.
Step3Drained(t) ==
    /\ pc[t] = "s3_stream"
    /\ StreamOver(result[t])
    /\ task_recorder' = [task_recorder EXCEPT ![t][1].instructions = result[t].final_output]
    /\ outputs' = [outputs EXCEPT ![t][3] = result[t].final_output]
    /\ pc' = [pc EXCEPT ![t] = "s3_exit"]
    /\ UNCHANGED <<env, generator, kind, frame, result, entered, exception, printed,
                   warnings, files, log, emitted>>

\* step3 returns; step4 enters async with self.agent_4.
Step3Exited(t) ==
    /\ pc[t] = "s3_exit"
    /\ exception[t] = ""
    /\ entered' = [entered EXCEPT ![t] = agent[4]]
    /\ result' = [result EXCEPT ![t] = NoResult]
    /\ log' = [log EXCEPT ![t] = @ \o <<"end step3", "start step4">>]
    /\ pc' = [pc EXCEPT ![t] = "s4_enter"]
    /\ UNCHANGED <<env, generator, kind, task_recorder, frame, exception, printed,
                   warnings, files, emitted, outputs>>

\* Step4Drained with the completion flag set as soon as the name is stored,
\* before format_config has run.
Step4Drained_completes(t) ==
    /\ pc[t] = "s4_stream"
    /\ result[t].pending = <<>> /\ result[t].status = "complete"
    /\ task_recorder' =
           [task_recorder EXCEPT
               ![t][1].name = Some(SanitizeName(Get(result[t].final_output))),
               ![t][1]._is_complete = TRUE]
    /\ outputs' = [outputs EXCEPT ![t][4] = result[t].final_output]
    /\ pc' = [pc EXCEPT ![t] = "s4_exit"]
    /\ UNCHANGED <<env, generator, kind, frame, result, entered, exception, printed,
                   warnings, files, log, emitted>>

\* step4: the stream has ended; the name is checked, sanitized with a
\* warning if it violates the constraint, and stored.
Step4Drained(t) ==
    /\ pc[t] = "s4_stream"
    /\ StreamOver(result[t])
    /\ LET name == Get(result[t].final_output)
       IN  /\ warnings' = [warnings EXCEPT ![t] =
                  IF NameViolates(name)
                  THEN Append(@, "Generated name is too long or contains spaces: " \o name)
                  ELSE @]
           /\ task_recorder' = [task_recorder EXCEPT ![t][1].name = Some(SanitizeName(name))]
    /\ outputs' = [outputs EXCEPT ![t][4] = result[t].final_output]
    /\ pc' = [pc EXCEPT ![t] = "s4_exit"]
    /\ UNCHANGED <<env, generator, kind, frame, result, entered, exception, printed,
                   files, log, emitted>>

\* format_config: the path and the text it writes for a record.
format_config(rec) ==
    [ofn |-> OutputPath(Get(rec.name)),
     config |-> RenderConfig(Get(rec.selected_tools), Get(rec.name), Get(rec.instructions))]

\* ofn.write_text(config): the file is created or overwritten.
write_text(fs, ofn, config) ==
    [f \in (DOMAIN fs) \cup {ofn} |-> IF f = ofn THEN config ELSE fs[f]]

\* step4 returns; format_config writes the document; _start_streaming
\* sets the completion flag; the pipeline returns.
Step4Exited(t) ==
    /\ pc[t] = "s4_exit"
    /\ exception[t] = ""
    /\ entered' = [entered EXCEPT ![t] = 0]
    /\ result' = [result EXCEPT ![t] = NoResult]
    /\ LET written == format_config(Recorder(t))
       IN  /\ files' = write_text(files, written.ofn, written.config)
           /\ frame' = [frame EXCEPT ![t].ofn = Some(written.ofn)]
    /\ task_recorder' =
           IF kind[t] = "streamed"
           THEN [task_recorder EXCEPT ![t][1]._is_complete = TRUE]
           ELSE task_recorder
    /\ log' = [log EXCEPT ![t] =
                  @ \o <<"end step4", "start format_config", "end format_config">>]
    /\ pc' = [pc EXCEPT ![t] = "done"]
    /\ UNCHANGED <<env, generator, kind, exception, printed, warnings, emitted, outputs>>

Next ==
    \/ \E m \in {"local", "webui"} : SetMode(m)
    \/ \E t \in DOMAIN pc : Build(t)
    \/ \E t \in DOMAIN pc : BuildResume(t)
    \/ \E t \in DOMAIN pc : Run(t)
    \/ \E t \in DOMAIN pc : RunStreamed(t)
    \/ \E t \in DOMAIN pc : StartStreaming(t)
    \/ \E t \in DOMAIN pc : AgentStreams(t)
    \/ \E t \in DOMAIN pc : AgentCompletes(t)
    \/ \E t \in DOMAIN pc : AgentFails(t)
    \/ \E t \in DOMAIN pc : AgentHangs(t)
    \/ \E t \in DOMAIN pc : Step1Asked(t)
    \/ \E t \in DOMAIN pc : AgentEntered(t)
    \/ \E t \in DOMAIN pc : StreamEvent(t)
    \/ \E t \in DOMAIN pc : StreamRaised(t)
    \/ \E t \in DOMAIN pc : ExitRaised(t)
    \/ \E t \in DOMAIN pc : Step1Drained(t)
    \/ \E t \in DOMAIN pc : Step1Exited(t)
    \/ \E t \in DOMAIN pc : Step2ToolsLoaded(t)
    \/ \E t \in DOMAIN pc : Step2Drained(t)
    \/ \E t \in DOMAIN pc : Step2Exited(t)
    \/ \E t \in DOMAIN pc : Step3Drained(t)
    \/ \E t \in DOMAIN pc : Step3Exited(t)
    \/ \E t \in DOMAIN pc : Step4Drained(t)
    \/ \E t \in DOMAIN pc : Step4Exited(t)

Init == env \in Scenarios /\ Constructed

InitPair == env = "pair" /\ Constructed

Spec == Init /\ [][Next]_vars

SpecPair == InitPair /\ [][Next]_vars

\* A step of pipeline t after it has been started, but for the two below.
Resumed(t) ==
    \/ BuildResume(t) \/ StartStreaming(t)
    \/ AgentStreams(t) \/ AgentCompletes(t) \/ AgentFails(t) \/ AgentHangs(t)
    \/ Step1Asked(t) \/ AgentEntered(t) \/ StreamEvent(t) \/ StreamRaised(t)
    \/ ExitRaised(t) \/ Step1Drained(t) \/ Step1Exited(t) \/ Step2ToolsLoaded(t)
    \/ Step2Exited(t) \/ Step3Drained(t) \/ Step3Exited(t) \/ Step4Drained(t)

\* Step2Drained and Step4Exited, by the await they leave and the one they
\* reach: the steps of Next that do so are theirs.
Step2DrainedPc(t) ==
    /\ pc[t] = "s2_stream"
    /\ StreamOver(result[t])
    /\ pc' = [pc EXCEPT ![t] = "s2_exit"]

Step4ExitedPc(t) ==
    /\ pc[t] = "s4_exit"
    /\ exception[t] = ""
    /\ pc' = [pc EXCEPT ![t] = "done"]

\* One pipeline under the scheduling of the event loop: once a pipeline
\* has been started, a coroutine whose await has returned is resumed, the
\* user answers, and an agent run goes on to stream, complete, fail or
\* hang.  Nothing obliges the caller to start a pipeline.
SpecLive ==
    /\ Init
    /\ [][Next]_vars
    /\ \A t \in {1} :
           /\ WF_vars(Resumed(t))
           /\ WF_pc(Step2DrainedPc(t))
           /\ WF_pc(Step4ExitedPc(t))

(***************************************************************************)
(* Properties.                                                             *)
(***************************************************************************)
\* The pipelines: the calls of run() and run_streamed().
Pipelines == {t \in DOMAIN pc : kind[t] \in {"run", "streamed"}}

\* The pipelines whose record exists.
Recorded == {t \in DOMAIN pc : task_recorder[t] # None}

\* The order in which a pipeline starts and ends its steps.
PipelineOrder ==
    <<"start build", "end build", "start step1", "end step1", "start step2",
      "end step2", "start step3", "end step3", "start step4", "end step4",
      "start format_config", "end format_config">>

IsPrefix(a, b) == Len(a) <= Len(b) /\ SubSeq(b, 1, Len(a)) = a

InLog(t, what) == \E i \in 1..Len(log[t]) : log[t][i] = what

\* C1: in every pipeline run the steps start and end strictly in the order
\* build, step1, step2, step3, step4, format_config, each one starting only
\* after the one before it has ended; so the record's fields are set in the
\* order requirements, selected_tools, instructions, name (none before its
\* step has started), and format_config is invoked only after all four are
\* set.
C1_StepsInOrder ==
    \A t \in Pipelines :
        /\ IsPrefix(log[t], PipelineOrder)
        /\ t \in Recorded =>
            LET r == Recorder(t)
            IN  /\ IsSet(r.requirements) => InLog(t, "start step1")
                /\ IsSet(r.selected_tools) =>
                       InLog(t, "start step2") /\ IsSet(r.requirements)
                /\ IsSet(r.instructions) =>
                       InLog(t, "start step3") /\ IsSet(r.selected_tools)
                /\ IsSet(r.name) => InLog(t, "start step4") /\ IsSet(r.instructions)
                /\ InLog(t, "end step1") => IsSet(r.requirements)
                /\ InLog(t, "end step2") => IsSet(r.selected_tools)
                /\ InLog(t, "end step3") => IsSet(r.instructions)
                /\ InLog(t, "end step4") => IsSet(r.name)
                /\ InLog(t, "start format_config") =>
                       /\ IsSet(r.requirements) /\ IsSet(r.selected_tools)
                       /\ IsSet(r.instructions) /\ IsSet(r.name)

\* A pipeline has run all its steps, in order, and written its document.
C1_Witness ==
    \E t \in Pipelines :
        /\ pc[t] = "done"
        /\ log[t] = PipelineOrder
        /\ IsSet(Recorder(t).name)
        /\ frame[t].ofn # None

\* The background pipelines: the calls of run_streamed().
Streamed == {t \in DOMAIN pc : kind[t] = "streamed"}

\* The output field of the record r that a step sets.
Field(r, step) ==
    CASE step = 1 -> r.requirements
      [] step = 2 -> r.selected_tools
      [] step = 3 -> r.instructions
      [] step = 4 -> r.name

EndOf(step) == <<"end step1", "end step2", "end step3", "end step4">>[step]

\* The completion flag of a background pipeline is false until its four
\* steps and format_config have finished; once true it stays true.
FlagFalseUntilDone ==
    \A t \in Streamed :
        Recorder(t)._is_complete =>
            /\ pc[t] = "done"
            /\ log[t] = PipelineOrder
            /\ \A k \in 1..4 : IsSet(Field(Recorder(t), k))
            /\ frame[t].ofn # None

FlagStaysTrue ==
    \A t \in Streamed :
        Recorder(t)._is_complete => (t \in Streamed' /\ Recorder(t)'._is_complete)

\* C2 as stated: in background mode the completion flag is false until all
\* four steps and format_config have finished, then becomes true once and
\* never returns to false; and no output field is set in the record before
\* its step has completed (returned).
C2_FlagAndNoEarlyOutput ==
    /\ [](FlagFalseUntilDone
          /\ \A t \in Streamed : \A k \in 1..4 :
                 IsSet(Field(Recorder(t), k)) => InLog(t, EndOf(k)))
    /\ [][FlagStaysTrue]_vars

\* C2, amended: as above for the flag; and an output field is set only
\* once the agent run of its step has completed and its stream has been
\* relayed to the end.  requirements, instructions and name are stored
\* inside the async with block of their step, while the agent is still
\* entered and before the step returns; selected_tools is stored by the
\* last statement of step2.
C2_FlagAndOutputAfterRun ==
    /\ [](FlagFalseUntilDone
          /\ \A t \in Streamed : \A k \in 1..4 :
                 /\ IsSet(Field(Recorder(t), k)) =>
                        /\ outputs[t][k] # None
                        /\ ~(pc[t] = StreamPc(k))
                 /\ (IsSet(Field(Recorder(t), k)) /\ ~InLog(t, EndOf(k))) =>
                        /\ k # 2
                        /\ pc[t] = ExitPc(k)
                        /\ entered[t] = agent[k])
    /\ [][/\ FlagStaysTrue
          /\ \A t \in Streamed : \A k \in 1..4 :
                 (~IsSet(Field(Recorder(t), k)) /\ IsSet(Field(Recorder(t)', k))) =>
                     /\ result[t].step = k
                     /\ result[t].status = "complete"
                     /\ result[t].pending = <<>>]_vars

\* A background pipeline has finished and set its completion flag.
C2_Witness ==
    \E t \in Streamed : Recorder(t)._is_complete /\ pc[t] = "done"

\* The names of the tools a toolkit offers.
ToolNames(toolkit_name) ==
    {get_tools_in_agents(toolkit_name)[k].name :
        k \in 1..Len(get_tools_in_agents(toolkit_name))}

\* The tools some available toolkit offers.
KnownTools == UNION {ToolNames(available_toolkits[k]) : k \in 1..Len(available_toolkits)}

\* The tool-selection output that step2 of pipeline t has read cannot be
\* used: it is no JSON, or it names a tool that no toolkit offers.
BadSelection(t) ==
    /\ outputs[t][2] # None
    /\ LET parsed == JsonLoads(Get(outputs[t][2]))
       IN  ~parsed.ok \/ \E i \in 1..Len(parsed.items) : parsed.items[i] \notin KnownTools

\* The last step a pipeline has started.
LastInLog(t) == IF log[t] = <<>> THEN "" ELSE log[t][Len(log[t])]

\* C3: if a step of a pipeline run fails (its agent run fails, the
\* tool-selection output is no JSON, or it names a tool that is not in the
\* reverse index), the run aborts: the exception leaves the pipeline, no
\* later step is started, format_config is not invoked, no document is
\* written for the run, and the aborted pipeline does nothing more.
C3_FailureAborts ==
    /\ [](\A t \in Pipelines :
            /\ (t \in Recorded /\ BadSelection(t)) =>
                   /\ pc[t] \in {"s2_exit", "failed"}
                   /\ ~IsSet(Recorder(t).selected_tools)
            /\ result[t].status = "failed" =>
                   pc[t] \in {StreamPc(result[t].step), ExitPc(result[t].step)}
            /\ exception[t] # "" => pc[t] \in ExitPcs \cup {"failed"}
            /\ pc[t] = "failed" =>
                   /\ exception[t] \in {"AgentError", "JSONDecodeError", "KeyError"}
                   /\ LastInLog(t) \in {"start step1", "start step2", "start step3",
                                        "start step4"}
                   /\ frame[t].ofn = None
                   /\ t \in Recorded /\ ~Recorder(t)._is_complete)
    /\ [](files # EmptyDict =>
             \E t \in Pipelines : pc[t] = "done" /\ InLog(t, "end format_config"))
    /\ [][\A t \in Pipelines :
            /\ (exception[t] # "" /\ pc'[t] # pc[t]) => pc'[t] = "failed"
            /\ exception[t] # "" =>
                   /\ exception'[t] = exception[t]
                   /\ log'[t] = log[t]
                   /\ task_recorder'[t] = task_recorder[t]
                   /\ files' = files
            /\ pc[t] = "failed" =>
                   /\ pc'[t] = "failed"
                   /\ frame'[t] = frame[t]
                   /\ entered'[t] = 0]_vars

\* A pipeline has aborted in step2 on an output that is no JSON.
C3_Witness ==
    \E t \in Pipelines :
        /\ pc[t] = "failed"
        /\ exception[t] = "JSONDecodeError"
        /\ ~IsSet(Recorder(t).selected_tools)

\* The keys of an ordered dict, in order.
Keys(dict) == [k \in 1..Len(dict) |-> dict[k].toolkit_name]

\* C4: after a successful step2, every tool of selected_tools[g] is mapped
\* to g by the reverse index built from the available toolkits (which maps
\* each tool some toolkit offers to a toolkit that offers it);
\* selected_tools[g] is exactly the subsequence, in returned order, of the
\* returned tool names whose owner is g; and no group without a returned
\* tool is a key.
C4_SelectedToolsGrouped ==
    \A t \in Recorded :
        IsSet(Recorder(t).selected_tools) =>
            LET sel == Get(Recorder(t).selected_tools)
                index == frame[t].tool_to_toolkit_name
                returned == JsonLoads(Get(outputs[t][2])).items
            IN  /\ DOMAIN index = KnownTools
                /\ \A n \in KnownTools : n \in ToolNames(index[n])
                /\ \A i \in 1..Len(returned) : returned[i] \in KnownTools
                /\ \A k \in 1..Len(sel) :
                       LET g == sel[k].toolkit_name
                           OwnedByG(n) == index[n] = g
                       IN  /\ \A j \in 1..Len(sel[k].tool_names) :
                                  index[sel[k].tool_names[j]] = g
                           /\ sel[k].tool_names = SelectSeq(returned, OwnedByG)
                           /\ sel[k].tool_names # <<>>
                           /\ \A k2 \in 1..Len(sel) :
                                  sel[k2].toolkit_name = g => k2 = k
                /\ {sel[k].toolkit_name : k \in 1..Len(sel)}
                       = {index[returned[i]] : i \in 1..Len(returned)}

\* step2 has grouped three returned names, two of them of one toolkit with
\* a tool of another toolkit between them.
C4_Witness ==
    \E t \in Recorded :
        /\ IsSet(Recorder(t).selected_tools)
        /\ Get(outputs[t][2]) = "[\"web_search\", \"read_file\", \"web_qa\"]"
        /\ Get(Recorder(t).selected_tools) =
               <<[toolkit_name |-> "search", tool_names |-> <<"web_search", "web_qa">>],
                 [toolkit_name |-> "bash", tool_names |-> <<"read_file">>]>>

\* Some call of build() has completed.
BuildCompleted == \E u \in DOMAIN pc : InLog(u, "end build")

\* C5: once a call of build() has completed, every later call of build()
\* (on its own, or at the start of run() or of a background pipeline)
\* returns at once, constructs nothing and leaves agent_1 .. agent_4 and the
\* interaction toolkit referring to the objects they referred to.
C5_BuildIdempotent ==
    /\ [](BuildCompleted => (_initialized /\ \A k \in 1..4 : agent[k] # 0))
    /\ [][\A t \in DOMAIN pc :
            (BuildCompleted /\ ~InLog(t, "start build") /\ InLog(t, "start build")') =>
                /\ InLog(t, "end build")'
                /\ pc'[t] # "build_tools"
                /\ agent' = agent
                /\ interaction_toolkit' = interaction_toolkit
                /\ constructed' = constructed]_vars

\* Two calls of build() have completed and only one of them constructed
\* the interaction toolkit and the four agents.
C5_Witness ==
    /\ \A t \in DOMAIN pc : InLog(t, "end build")
    /\ Cardinality(DOMAIN pc) = 2
    /\ constructed = 5

\* C6: after step4 the stored name has at most 50 characters and no space.
\* A generated name of at most 50 characters without a space is stored
\* unchanged and no warning is logged; otherwise the stored name is the
\* first 50 characters of the generated name with every space replaced by
\* an underscore, one warning is logged, and the run goes on.
C6_NameSanitized ==
    \A t \in Recorded :
        outputs[t][4] # None =>
            LET generated == Get(outputs[t][4])
                stored == Get(Recorder(t).name)
                fits == /\ Len(generated) <= 50
                        /\ \A i \in 1..Len(generated) : SubSeq(generated, i, i) # " "
            IN  /\ IsSet(Recorder(t).name)
                /\ Len(stored) <= 50
                /\ \A i \in 1..Len(stored) : SubSeq(stored, i, i) # " "
                /\ fits => (stored = generated /\ warnings[t] = <<>>)
                /\ ~fits =>
                       /\ Len(stored) = (IF Len(generated) < 50 THEN Len(generated) ELSE 50)
                       /\ \A i \in 1..Len(stored) :
                              SubSeq(stored, i, i) =
                                  IF SubSeq(generated, i, i) = " " THEN "_"
                                  ELSE SubSeq(generated, i, i)
                       /\ Len(warnings[t]) = 1
                /\ pc[t] \in {"s4_exit", "done"}
                /\ exception[t] = ""

\* step4 has cut a generated name of more than 50 characters with spaces
\* before and after the cut, and the pipeline has finished.
C6_Witness ==
    \E t \in Recorded :
        /\ pc[t] = "done"
        /\ outputs[t][4] # None
        /\ Len(Get(outputs[t][4])) > 50
        /\ SubSeq(Get(outputs[t][4]), 1, 1) = " "
        /\ SubSeq(Get(outputs[t][4]), 51, 51) = " "
        /\ Len(Get(Recorder(t).name)) = 50
        /\ Len(warnings[t]) = 1

HasPrefix(s, p) == Len(s) >= Len(p) /\ SubSeq(s, 1, Len(p)) = p

Contains(s, sub) ==
    \E i \in 1..(Len(s) - Len(sub) + 1) : SubSeq(s, i, i + Len(sub) - 1) = sub

\* The lines of a rendered document that name the agent, include a
\* toolkit, and configure a toolkit: each is indented by two spaces (the
\* lines of the instructions are indented by four).
IsNameLine(line) == HasPrefix(line, "  name: ")
IsIncludeLine(line) == HasPrefix(line, "  - /tools/")
IsToolkitLine(line) ==
    /\ HasPrefix(line, "  ")
    /\ ~HasPrefix(line, "   ")
    /\ Contains(line, ": {\"activated_tools\": ")

\* What C7 says of the document that pipeline t has written.
DocumentAsClaimed(t) ==
    LET r == Recorder(t)
        name == Get(r.name)
        sel == Get(r.selected_tools)
        path == Get(frame[t].ofn)
        lines == Split(files[path])
    IN  /\ path = "configs/agents/generated/" \o name \o ".yaml"
        /\ path \in DOMAIN files
        /\ SelectSeq(lines, IsNameLine) = <<"  name: " \o name>>
        /\ SelectSeq(lines, IsIncludeLine) =
               [k \in 1..Len(sel) |->
                   "  - /tools/" \o sel[k].toolkit_name
                   \o "@toolkits." \o sel[k].toolkit_name]
        /\ SelectSeq(lines, IsToolkitLine) =
               [k \in 1..Len(sel) |->
                   "  " \o sel[k].toolkit_name \o ": {\"activated_tools\": ["
                   \o Join([j \in 1..Len(sel[k].tool_names) |->
                               "\"" \o sel[k].tool_names[j] \o "\""], ", ")
                   \o "]}"]

\* C7: when format_config has run on a populated record, the document it
\* has written holds exactly one agent name line, and one include line
\* '- /tools/<g>@toolkits.<g>' and one '<g>: {"activated_tools": [...]}'
\* line for each key g of selected_tools, in key order, and none for any
\* other group; it is written to <output_dir>/<name>.yaml, the path that
\* format_config returns.
C7_DocumentLines ==
    \A t \in Recorded : frame[t].ofn # None => DocumentAsClaimed(t)

\* A document with two toolkits has been written for instructions that
\* hold lines looking like an include line and a name line.
C7_Witness ==
    \E t \in Recorded :
        /\ frame[t].ofn # None
        /\ Len(Get(Recorder(t).selected_tools)) = 2
        /\ Contains(Get(Recorder(t).instructions), "- /tools/")
        /\ Get(Recorder(t).name) = "web_pdf_agent"

\* The events of a sequence that the agent run of a step has streamed.
OfStep(events, step) == SelectSeq(events, LAMBDA e : e.step = step)

\* The events of pipeline t that have been relayed, by the generator's mode.
Relayed(t) == IF mode = "local" THEN printed[t] ELSE Recorder(t)._event_queue

\* C8 as stated: in a pipeline started by run_streamed(), the events on the
\* record's event queue, followed by those the stream still holds, are the
\* progress events the agent runs have emitted, in order of emission.
C8_EventsOnQueue ==
    \A t \in Streamed :
        Recorder(t)._event_queue \o result[t].pending = emitted[t]

\* C8, amended: in a pipeline started by run_streamed() on a generator whose
\* mode is "webui", every progress event streamed by the agent runs of
\* steps 1-4 is put on the record's event queue, in the order it was
\* emitted; with the mode "local", which the constructor sets and
\* run_streamed() leaves alone, the events are printed and the queue stays
\* empty.
C8_EventsOnQueueInWebui ==
    \A t \in Streamed :
        IF mode = "webui"
        THEN /\ Recorder(t)._event_queue \o result[t].pending = emitted[t]
             /\ printed[t] = <<>>
        ELSE /\ Recorder(t)._event_queue = <<>>
             /\ printed[t] \o result[t].pending = emitted[t]

\* A background pipeline in webui mode has finished with the events of all
\* four steps on its queue, more than one of each step.
C8_Witness ==
    \E t \in Streamed :
        /\ mode = "webui"
        /\ pc[t] = "done"
        /\ \A k \in 1..4 : Len(OfStep(Recorder(t)._event_queue, k)) >= 2

\* C9: when run_streamed() has returned and the background task has not yet
\* been run by the event loop, build and the four steps have not run for
\* it, the record's output fields are unset, its completion flag is false,
\* its event queue is empty, and the record references the scheduled task.
C9_ReturnsBeforeRunning ==
    \A t \in DOMAIN pc :
        pc[t] = "scheduled" =>
            /\ kind[t] = "streamed"
            /\ task_recorder[t] # None
            /\ \A k \in 1..4 : Field(Recorder(t), k) = None /\ outputs[t][k] = None
            /\ Recorder(t)._is_complete = FALSE
            /\ Recorder(t)._event_queue = <<>>
            /\ Recorder(t)._run_impl_task = Some(t)
            /\ log[t] = <<>>
            /\ emitted[t] = <<>>
            /\ result[t] = NoResult
            /\ frame[t] = NewFrame

\* run_streamed() has returned and its task is scheduled, not yet run.
C9_Witness ==
    \E t \in DOMAIN pc : pc[t] = "scheduled" /\ task_recorder[t] # None

\* C10: once the final output of a step's agent run has been read, every
\* progress event that run has streamed has been relayed, printed in local
\* mode and put on the queue in webui mode, in order of emission, and the
\* run streams no event after it.
C10_DrainedBeforeOutput ==
    \A t \in Recorded :
        \A k \in 1..4 :
            outputs[t][k] # None =>
                OfStep(Relayed(t), k) = OfStep(emitted[t], k)

\* The final output of step2 has been read after the runs of step1 and
\* step2 have each streamed several events.
C10_Witness ==
    \E t \in Recorded :
        /\ outputs[t][2] # None
        /\ Len(OfStep(Relayed(t), 1)) >= 2
        /\ Len(OfStep(Relayed(t), 2)) >= 2

\* The awaits of a pipeline inside an async with block: __aenter__, the
\* agent run and its stream, __aexit__.
ScopedPcs == EnterPcs \cup StreamPcs \cup ExitPcs

\* C11: a pipeline holds an agent exactly while it is inside the async with
\* block of a step, from the call of __aenter__ to the return of
\* __aexit__, and the agent it holds there is the agent of that step; it
\* holds none before step1's block, between the blocks, and once the run
\* has completed or aborted, whether the step succeeded or failed.
C11_AgentScoped ==
    \A t \in DOMAIN pc :
        IF pc[t] \in ScopedPcs
        THEN entered[t] # 0 /\ entered[t] = agent[StepOf(pc[t])]
        ELSE entered[t] = 0

\* A pipeline has aborted in step3, after it had entered and exited the
\* agents of step1 and step2, and holds no agent.
C11_Witness ==
    \E t \in Pipelines :
        /\ pc[t] = "failed"
        /\ exception[t] = "AgentError"
        /\ InLog(t, "start step3")
        /\ ~InLog(t, "end step3")
        /\ entered[t] = 0

\* The await at which format_config runs: it is called when step4's
\* __aexit__ has returned.
FormatPc == "s4_exit"

\* C12: a step of a pipeline changes no output field of the record but its
\* own, and sets its own once: the field of step k changes only in a step
\* taken inside step k, before format_config, and only from unset to set;
\* so requirements, once step1 has set it, is left unchanged by step2,
\* step3, step4 and format_config, and format_config changes no output
\* field at all.
C12_StepsWriteOwnField ==
    [][\A t \in Recorded :
          \A k \in 1..4 :
              Field(Recorder(t), k)' # Field(Recorder(t), k) =>
                  /\ StepOf(pc[t]) = k
                  /\ pc[t] # FormatPc
                  /\ Field(Recorder(t), k) = None]_vars

\* A pipeline has run format_config with its four fields set, to outputs
\* that differ from one another.
C12_Witness ==
    \E t \in Recorded :
        /\ pc[t] = "done"
        /\ frame[t].ofn # None
        /\ \A k \in 1..4 : Field(Recorder(t), k) # None
        /\ Recorder(t).requirements # Recorder(t).instructions
        /\ Recorder(t).requirements # Recorder(t).name

\* The agent run of pipeline t's current step never returns.
Hung(t) == result[t].status = "hung"

\* An agent run of pipeline t has failed.
AgentFailed(t) == result[t].status = "failed" \/ exception[t] = "AgentError"

\* The background pipeline t has written its document and set the flag.
Completed(t) ==
    /\ kind[t] = "streamed"
    /\ pc[t] = "done"
    /\ Recorder(t)._is_complete
    /\ frame[t].ofn # None
    /\ Get(frame[t].ofn) \in DOMAIN files

\* A pipeline whose agent run never returns is suspended in that step: the
\* step has not ended, no later step has started, its field and those of
\* the later steps are unset, no document is written and the completion
\* flag is false.
HangsAtStep ==
    \A t \in Recorded :
        Hung(t) =>
            /\ pc[t] = StreamPc(result[t].step)
            /\ \A k \in result[t].step..4 :
                   /\ ~InLog(t, EndOf(k))
                   /\ Field(Recorder(t), k) = None
            /\ ~InLog(t, "start format_config")
            /\ frame[t].ofn = None
            /\ files = EmptyDict
            /\ ~Recorder(t)._is_complete

\* A pipeline whose agent run never returns stays where it is.
HangsForever ==
    \A t \in Recorded :
        Hung(t) => (Hung(t)' /\ pc'[t] = pc[t] /\ log'[t] = log[t] /\ files' = files)

C14_FailedStep2LeavesRecord ==
    \A t \in Recorded :
        BadSelection(t) =>
            /\ pc[t] \in {"s2_exit", "failed"}
            /\ pc[t] = "failed" => exception[t] \in {"JSONDecodeError", "KeyError"}
            /\ Recorder(t).requirements # None
            /\ Recorder(t).requirements = outputs[t][1]
            /\ Recorder(t).selected_tools = None
            /\ Recorder(t).instructions = None
            /\ Recorder(t).name = None
            /\ ~Recorder(t)._is_complete

\* step2 has raised KeyError on a list whose first name is known and whose
\* second is not.
C14_Witness ==
    \E t \in Recorded :
        /\ pc[t] = "failed"
        /\ exception[t] = "KeyError"
        /\ Len(frame[t].selected_tool_names) >= 2
        /\ frame[t].selected_tool_names[1] \in KnownTools
        /\ frame[t].selected_tool_names[2] \notin KnownTools

\* The objects one build() constructs: the interaction toolkit and the
\* four agents.
BuiltObjects == 5

\* C15: however the calls of build() on one generator interleave, the
\* interaction toolkit and the four agents are constructed at most once,
\* and once a pipeline has passed build the agent references and the
\* toolkit reference are never replaced.
C15_ConstructedOnce ==
    /\ [](constructed <= BuiltObjects)
    /\ [][BuildCompleted =>
            (agent' = agent /\ interaction_toolkit' = interaction_toolkit)]_vars

\* The events that pipeline t has relayed, to the console or to its queue.
RelayedBy(t) == printed[t] \o Recorder(t)._event_queue

\* C16: when two background pipelines on one generator interleave, each
\* record holds only the outputs that the steps of its own pipeline have
\* read and only the progress events of its own pipeline's agent runs, and
\* no agent instance is held by one pipeline while the other holds it.
C16_PipelinesIsolated ==
    /\ \A t \in Streamed :
           /\ Recorder(t).requirements \in {None, outputs[t][1]}
           /\ Recorder(t).instructions \in {None, outputs[t][3]}
           /\ Recorder(t).name # None =>
                  /\ outputs[t][4] # None
                  /\ Recorder(t).name = Some(SanitizeName(Get(outputs[t][4])))
           /\ \A i \in 1..Len(RelayedBy(t)) : RelayedBy(t)[i].task = t
    /\ \A t \in Streamed :
           \A u \in Streamed \ {t} :
               entered[t] # 0 => entered[u] # entered[t]

=============================================================================
